---- MODULE Spec2Model ----
(***************************************************************************)
(* STRdust (src/src/call.rs): the per-locus genotyping engine and its      *)
(* scheduler.                                                              *)
(*                                                                         *)
(*   SpecRef  make_repeat_compressed_sequence: the two flanks fetched and  *)
(*            joined.                                                      *)
(*   SpecCs   parse_cs: the regex scan of one cs tag, one operation per    *)
(*            step.                                                        *)
(*   SpecGeno genotype_repeat: the loop over the two haplotypes, their     *)
(*            reads and each read's mappings.                              *)
(*   Spec     genotype_repeats on a region file: one run with a single     *)
(*            worker followed by one run with a pool of workers, both on   *)
(*            the same inputs.                                             *)
(*   SpecFair the same two runs under a fair scheduler.                    *)
(*                                                                         *)
(* Text is modelled as what Rust holds: a String is its sequence of bytes  *)
(* (numbers), a cs tag is its sequence of characters.                      *)
(***************************************************************************)
EXTENDS Integers, Sequences, FiniteSets

VARIABLES
    \* parameters of a call (call.rs:18-21)
    minlen, support, somatic,
    \* parse_cs (call.rs:250-302)
    cs, target_start, csPos, ref_pos, insertions, csPc, csResult,
    \* make_repeat_compressed_sequence (call.rs:205-220)
    fasLen, fas_left, fas_right, newref, refPc,
    \* genotype_repeat (call.rs:147-203)
    locus, bam, seqs, phaseIx, readIx, hap_insertions, consenses, all_insertions,
    consensusCalls, gPc, gResult,
    \* genotype_repeats on a region file (call.rs:49-140)
    bed, genotypeOf, bamOpened, run, reader, pc, cur, res, genotypes, genoLock,
    chrom_reported, chromLock, printed, stdout, stderr, exit

cfgVars == <<minlen, support, somatic>>
refVars == <<fasLen, fas_left, fas_right, newref, refPc>>
csVars == <<cs, target_start, csPos, ref_pos, insertions, csPc, csResult>>
genoVars == <<locus, bam, seqs, phaseIx, readIx, hap_insertions, consenses,
              all_insertions, consensusCalls, gPc, gResult>>
runVars == <<bed, genotypeOf, bamOpened, run, reader, pc, cur, res, genotypes, genoLock, chrom_reported,
             chromLock, printed, stdout, stderr, exit>>
vars == <<cfgVars, refVars, csVars, genoVars, runVars>>

-----------------------------------------------------------------------------
(* Bounds of the model.                                                    *)

\* longest cs tag, in characters
MaxTagLen == 5
\* most alignment records overlapping one locus
MaxReads == 3
\* most records of the region file
MaxLoci == 3
\* workers of the pool in the multi-worker run
PoolSize == 2

-----------------------------------------------------------------------------
(* Option<T> and the outcome of a call that may panic.                     *)

None == [panic |-> FALSE, some |-> FALSE, val |-> <<>>]
Some(v) == [panic |-> FALSE, some |-> TRUE, val |-> v]
Panicked == [panic |-> TRUE, some |-> FALSE, val |-> <<>>]

\* the variables of the parts a specification leaves aside
CsIdle ==
    /\ cs = <<>> /\ target_start = 0 /\ csPos = 0 /\ ref_pos = 0 /\ insertions = <<>>
    /\ csPc = "idle" /\ csResult = None

RefIdle ==
    /\ fasLen = 0 /\ fas_left = <<>> /\ fas_right = <<>> /\ newref = <<>>
    /\ refPc = "idle"

GenoIdle ==
    /\ locus = [chrom |-> <<>>, start |-> 0, end |-> 0]
    /\ bam = <<>> /\ seqs = None /\ phaseIx = 0 /\ readIx = 0
    /\ hap_insertions = <<>> /\ consenses = <<>> /\ all_insertions = <<>>
    /\ consensusCalls = <<>> /\ gPc = "idle" /\ gResult = None

RunIdle ==
    /\ bed = <<>> /\ genotypeOf = <<>> /\ bamOpened = <<0, 0>> /\ run = 0 /\ reader = 0
    /\ pc = [t \in 0..PoolSize |-> "idle"]
    /\ cur = [t \in 0..PoolSize |-> 0]
    /\ res = [t \in 0..PoolSize |-> None]
    /\ genotypes = <<>> /\ genoLock = {} /\ chrom_reported = <<>> /\ chromLock = {}
    /\ printed = 0
    /\ stdout = [r \in 1..2 |-> <<>>]
    /\ stderr = [r \in 1..2 |-> <<>>]
    /\ exit = [r \in 1..2 |-> "idle"]

RECURSIVE SeqsUpTo(_, _)
SeqsUpTo(S, n) ==
    IF n = 0 THEN {<<>>}
    ELSE LET shorter == SeqsUpTo(S, n - 1)
         IN  shorter \cup {Append(s, x) : s \in {t \in shorter : Len(t) = n - 1}, x \in S}

SetMin(S) == CHOOSE x \in S : \A y \in S : x <= y

\* Vec<String>::join(sep) (call.rs:183, 195, 298)
RECURSIVE Join(_, _)
Join(v, sep) ==
    IF v = <<>> THEN <<>>
    ELSE IF Len(v) = 1 THEN v[1]
    ELSE v[1] \o sep \o Join(Tail(v), sep)

-----------------------------------------------------------------------------
(* parse_cs (call.rs:250-302).                                             *)
(* The characters a tag is drawn from: the four operation symbols, one     *)
(* digit, one base, and '=' (the long-form identity operation of a cs tag, *)
(* which the regex of line 256 names in no alternative).                   *)

Digits == {"1"}
Bases == {"a"}
\* \w : letters, digits and '_' ; here the letters and digits of the alphabet
WordChars == Digits \cup Bases
OpSymbols == {":", "*", "+", "-"}
CsAlphabet == OpSymbols \cup WordChars \cup {"="}

\* the window of line 287, (9990..=10010), around the junction
WindowLow == 9990
WindowHigh == 10010
I32Max == 2147483647

DigitVal(c) == CASE c = "1" -> 1

\* str::parse::<i32> of a run of digits (call.rs:265-267): Err on overflow
RECURSIVE Decimal(_)
Decimal(s) ==
    IF s = <<>> THEN 0 ELSE 10 * Decimal(SubSeq(s, 1, Len(s) - 1)) + DigitVal(s[Len(s)])

\* the last index of the maximal run of characters of S that starts right after j
RECURSIVE RunEnd(_, _, _)
RunEnd(tag, j, S) ==
    IF j < Len(tag) /\ tag[j + 1] \in S THEN RunEnd(tag, j + 1, S) ELSE j

\* the regex (:\d+)|(\*\w+)|(\+\w+)|(-\w+) matches at position j (call.rs:256)
MatchAt(tag, j) ==
    /\ j < Len(tag)
    /\ \/ tag[j] = ":" /\ tag[j + 1] \in Digits
       \/ tag[j] \in {"*", "+", "-"} /\ tag[j + 1] \in WordChars

MatchEnd(tag, j) ==
    IF tag[j] = ":" THEN RunEnd(tag, j, Digits) ELSE RunEnd(tag, j, WordChars)

\* captures_iter: the leftmost match at or after position i, 0 when there is none;
\* the text before it is passed over (call.rs:260)
NextMatch(tag, i) ==
    LET starts == {j \in i..Len(tag) : MatchAt(tag, j)}
    IN  IF starts = {} THEN 0 ELSE SetMin(starts)

\* the window without its two ends: (9990..10010) with the lower end cut as well
InWindowStrict(p) == WindowLow < p /\ p < WindowHigh

\* (9990..=10010).contains(&ref_pos) (call.rs:287)
InWindow(p) == WindowLow <= p /\ p <= WindowHigh

\* cap[0][1..].len() > minlen (call.rs:287)
LongEnough(body, m) == Len(body) > m

\* the whole operation counted: a mismatch advances by the length of its symbols
MismatchAdvanceWhole(body) == Len(body)

\* cap[0][1..].len() as i32 / 2 (call.rs:273)
MismatchAdvance(body) == Len(body) \div 2

\* One turn of the loop of lines 260-296 on the scan state
\* st = [pos, ref_pos, insertions, pc].
CsOp(tag, m, st) ==
    LET j == NextMatch(tag, st.pos)
    IN  IF j = 0 THEN [st EXCEPT !.pc = "end", !.pos = Len(tag) + 1]
        ELSE
        LET e == MatchEnd(tag, j)
            op == tag[j]
            body == SubSeq(tag, j + 1, e)
            at == [st EXCEPT !.pos = e + 1]
        IN  CASE op = ":" ->
                   IF Decimal(body) > I32Max THEN [at EXCEPT !.pc = "panic"]
                   ELSE [at EXCEPT !.ref_pos = st.ref_pos + Decimal(body)]
              [] op = "*" -> [at EXCEPT !.ref_pos = st.ref_pos + MismatchAdvance(body)]
              [] op = "-" -> [at EXCEPT !.ref_pos = st.ref_pos + Len(body)]
              [] op = "+" ->
                   IF LongEnough(body, m) /\ InWindow(st.ref_pos)
                   THEN [at EXCEPT !.insertions = Append(st.insertions, body)]
                   ELSE at
              [] OTHER -> [at EXCEPT !.pc = "panic"]

\* lines 297-301
CsFinish(st) ==
    IF st.pc = "panic" THEN Panicked
    ELSE IF st.insertions # <<>> THEN Some(Join(st.insertions, <<>>)) ELSE None

CsStart(read) ==
    [pos |-> 1, ref_pos |-> read.target_start, insertions |-> <<>>, pc |-> "scan"]

RECURSIVE CsRun(_, _, _)
CsRun(tag, m, st) == IF st.pc # "scan" THEN st ELSE CsRun(tag, m, CsOp(tag, m, st))

\* parse_cs(read, minlen): Some(candidate), None, or a panic
ParseCs(read, m) == CsFinish(CsRun(read.cs, m, CsStart(read)))

\* the inputs of parse_cs the model draws from
TargetStarts == {9989, 10000, 10009}
MinLens == {0, 1}
Supports == {1, 2}
Tags == SeqsUpTo(CsAlphabet, MaxTagLen)

InitCs ==
    /\ minlen \in MinLens /\ support = 1 /\ somatic = FALSE
    /\ cs \in Tags
    /\ target_start \in TargetStarts
    /\ csPos = 1
    /\ ref_pos = target_start
    /\ insertions = <<>>
    /\ csPc = "scan"
    /\ csResult = None
    /\ RefIdle
    /\ GenoIdle
    /\ RunIdle

CsState == [pos |-> csPos, ref_pos |-> ref_pos, insertions |-> insertions, pc |-> csPc]

\* one captured operation (call.rs:260-296)
CsScan ==
    /\ csPc = "scan"
    /\ NextMatch(cs, csPos) # 0
    /\ LET st == CsOp(cs, minlen, CsState)
       IN  /\ csPos' = st.pos
           /\ ref_pos' = st.ref_pos
           /\ insertions' = st.insertions
           /\ csPc' = st.pc
    /\ UNCHANGED <<cs, target_start, csResult, cfgVars, refVars, genoVars, runVars>>

\* no further capture: the loop ends and the result is built (call.rs:297-301)
CsReturn ==
    /\ csPc = "scan"
    /\ NextMatch(cs, csPos) = 0
    /\ LET st == CsOp(cs, minlen, CsState)
       IN  /\ csPos' = st.pos
           /\ csPc' = "done"
           /\ csResult' = CsFinish(st)
    /\ UNCHANGED <<cs, target_start, ref_pos, insertions, cfgVars, refVars, genoVars, runVars>>

NextCs == CsScan \/ CsReturn

SpecCs == InitCs /\ [][NextCs]_vars

-----------------------------------------------------------------------------
(* The alignment store, the aligner and the consensus step.                *)

\* chromosome names, as the bytes of the String: "1", "10", "3"
Chr1 == <<49>>
Chr10 == <<49, 48>>
Chr3 == <<51>>
\* the contigs of the bam header (call.rs:230)
BamChroms == {Chr1, Chr10}

MapJunction == [target_start |-> 10000, cs |-> <<"+", "a", "a">>]
MapEdge == [target_start |-> 9989, cs |-> <<":", "1", "+", "a", "a", "a">>]

\* aligner.map(read) (call.rs:173): Ok(list of mappings) or Err; the aligner is a
\* black box, so a read is known by what it returns for it
AlignerOutputs ==
    { [ok |-> TRUE, maps |-> <<>>],
      [ok |-> TRUE, maps |-> <<MapJunction>>],
      [ok |-> TRUE, maps |-> <<MapEdge>>],
      [ok |-> TRUE, maps |-> <<MapJunction, MapEdge>>],
      [ok |-> FALSE, maps |-> <<>>] }

\* one alignment record of the store: its HP phase (utils::get_phase) and its read
BamRecords == [phase : {0, 1, 2}, read : AlignerOutputs]

\* only the records of the first haplotype are passed over: phase > 1
IsPhasedAboveOne(phase) == phase > 1

\* phase > 0 (call.rs:240)
IsPhased(phase) == phase > 0

\* the loop of lines 237-244 over the fetched records, in store order: the read of
\* a phased record is pushed on the bucket of its phase; get_mut(&phase).unwrap()
\* panics on a phase that is no key
RECURSIVE PushReads(_, _)
PushReads(buckets, records) ==
    IF records = <<>> THEN Some(buckets)
    ELSE LET r == records[1]
         IN  IF ~IsPhased(r.phase) THEN PushReads(buckets, Tail(records))
             ELSE IF r.phase \notin DOMAIN buckets THEN Panicked
             ELSE PushReads([buckets EXCEPT ![r.phase] = Append(@, r.read)], Tail(records))

\* get_overlapping_reads (call.rs:222-248): None when the contig is not in the
\* header, else the map built at line 234 with the reads pushed on it
GetOverlappingReads(chrom, records) ==
    IF chrom \in BamChroms
    THEN PushReads([p \in {1, 2} |-> <<>>], records)
    ELSE None

\* the loop of lines 174-178 over the mappings of one read: Some(the candidates
\* pushed), or a panic of parse_cs
RECURSIVE MappingCandidates(_, _)
MappingCandidates(maps, m) ==
    IF maps = <<>> THEN Some(<<>>)
    ELSE LET first == ParseCs(maps[1], m)
             rest == MappingCandidates(Tail(maps), m)
         IN  IF first.panic \/ rest.panic THEN Panicked
             ELSE IF first.some THEN Some(<<first.val>> \o rest.val) ELSE rest

\* lines 173-178 for one read
ReadCandidates(read, m) ==
    IF ~read.ok THEN Panicked ELSE MappingCandidates(read.maps, m)

\* crate::consensus::consensus(&insertions, support): none below the support
\* threshold, else the most frequent candidate, the earliest one on a tie
Occurrences(cands, c) == Cardinality({i \in DOMAIN cands : cands[i] = c})

Consensus(cands, sup) ==
    IF cands = <<>> \/ Len(cands) < sup THEN None
    ELSE LET best == {i \in DOMAIN cands :
                        \A k \in DOMAIN cands :
                            Occurrences(cands, cands[k]) <= Occurrences(cands, cands[i])}
         IN  Some(cands[SetMin(best)])

-----------------------------------------------------------------------------
(* The record of one locus, as the bytes of the formatted String.          *)

Byte(c) == CASE c = "a" -> 97 [] c = "1" -> 49
Bytes(text) == [i \in 1..Len(text) |-> Byte(text[i])]

\* u32 / usize to_string: the decimal digits, most significant first
RECURSIVE DecimalString(_)
DecimalString(n) == IF n < 10 THEN <<48 + n>> ELSE DecimalString(n \div 10) \o <<48 + (n % 10)>>

Tab == <<9>>
Dot == <<46>>
Comma == <<44>>
Pipe == <<124>>
\* ";SEQS="
SeqsKey == <<59, 83, 69, 81, 83, 61>>

\* the None arm gives a length of "0" next to the no-call sequence
LengthAndSeqZeroed(consensus) ==
    IF consensus.some
    THEN [length |-> DecimalString(Len(consensus.val)), seq |-> Bytes(consensus.val)]
    ELSE [length |-> <<48>>, seq |-> Dot]

\* lines 185-192: (length, sequence) of one haplotype
LengthAndSeq(consensus) ==
    IF consensus.some
    THEN [length |-> DecimalString(Len(consensus.val)), seq |-> Bytes(consensus.val)]
    ELSE [length |-> Dot, seq |-> Dot]

\* lines 194-198
SomaticInfoField(som, all) ==
    IF som THEN SeqsKey \o Join(all, Pipe) ELSE <<>>

\* The format string of lines 200-202 is
\*   "{chrom}\t{start}\t.\t{ref}\t{alt1},{alt2}\t.\t.\t" and a last column;
\* the arguments bound to ref, alt1 and alt2 and the last column are not in the
\* file. They are taken from the record's description: the two consensus
\* sequences as the alleles, no reference allele, and the two lengths followed by
\* the somatic field as the last column.
RefAllele == Dot
InfoColumn(h1, h2, info) == h1.length \o Comma \o h2.length \o info

\* lines 200-203
FormatRecord(chrom, start, cons, som, all) ==
    LET h1 == LengthAndSeq(cons[1])
        h2 == LengthAndSeq(cons[2])
    IN  chrom \o Tab \o DecimalString(start) \o Tab \o Dot \o Tab \o RefAllele \o Tab
            \o h1.seq \o Comma \o h2.seq \o Tab \o Dot \o Tab \o Dot \o Tab
            \o InfoColumn(h1, h2, SomaticInfoField(som, all))

-----------------------------------------------------------------------------
(* genotype_repeat (call.rs:147-203) as a loop over the reads.             *)

GenoLoci == [chrom : {Chr1, Chr3}, start : {20000}, end : {20028}]

InitGeno ==
    /\ minlen = 1 /\ support \in Supports /\ somatic \in BOOLEAN
    /\ locus \in GenoLoci
    /\ bam \in SeqsUpTo(BamRecords, MaxReads)
    /\ locus.chrom \notin BamChroms => bam = <<>>
    /\ seqs = None /\ phaseIx = 0 /\ readIx = 0
    /\ hap_insertions = <<>> /\ consenses = <<>> /\ all_insertions = <<>>
    /\ consensusCalls = <<>> /\ gPc = "fetch" /\ gResult = None
    /\ CsIdle
    /\ RefIdle
    /\ RunIdle

\* lines 157-158: the reads of the locus; expect() on a missing contig
GenoFetch ==
    /\ gPc = "fetch"
    /\ seqs' = GetOverlappingReads(locus.chrom, bam)
    /\ IF seqs'.some
       THEN gPc' = "reads" /\ phaseIx' = 1 /\ readIx' = 1
       ELSE gPc' = "panic" /\ UNCHANGED <<phaseIx, readIx>>
    /\ UNCHANGED <<locus, bam, hap_insertions, consenses, all_insertions,
                   consensusCalls, gResult, cfgVars, refVars, csVars, runVars>>

\* lines 172-179: one read of the current haplotype, all its mappings
GenoRead ==
    /\ gPc = "reads"
    /\ readIx <= Len(seqs.val[phaseIx])
    /\ LET got == ReadCandidates(seqs.val[phaseIx][readIx], minlen)
       IN  IF got.panic
           THEN gPc' = "panic" /\ UNCHANGED <<hap_insertions, readIx>>
           ELSE /\ hap_insertions' = hap_insertions \o got.val
                /\ readIx' = readIx + 1
                /\ gPc' = "reads"
    /\ UNCHANGED <<locus, bam, seqs, phaseIx, consenses, all_insertions,
                   consensusCalls, gResult, cfgVars, refVars, csVars, runVars>>

\* the candidates are moved into all_insertions before the consensus is taken:
\* with somatic the consensus step sees none
GenoConsensusAfterMove ==
    /\ gPc = "reads"
    /\ readIx > Len(seqs.val[phaseIx])
    /\ consensusCalls' = Append(consensusCalls, hap_insertions)
    /\ consenses' = Append(consenses,
                           Consensus(IF somatic THEN <<>> ELSE hap_insertions, support))
    /\ all_insertions' =
          IF somatic
          THEN Append(all_insertions,
                      Join([i \in DOMAIN hap_insertions |-> Bytes(hap_insertions[i])], Comma))
          ELSE all_insertions
    /\ hap_insertions' = <<>>
    /\ readIx' = 1
    /\ IF phaseIx = 2
       THEN gPc' = "format" /\ UNCHANGED phaseIx
       ELSE gPc' = "reads" /\ phaseIx' = phaseIx + 1
    /\ UNCHANGED <<locus, bam, seqs, gResult, cfgVars, refVars, csVars, runVars>>

\* lines 180-184: the haplotype's reads are done
GenoConsensus ==
    /\ gPc = "reads"
    /\ readIx > Len(seqs.val[phaseIx])
    /\ consensusCalls' = Append(consensusCalls, hap_insertions)
    /\ consenses' = Append(consenses, Consensus(hap_insertions, support))
    /\ all_insertions' =
          IF somatic
          THEN Append(all_insertions,
                      Join([i \in DOMAIN hap_insertions |-> Bytes(hap_insertions[i])], Comma))
          ELSE all_insertions
    /\ hap_insertions' = <<>>
    /\ readIx' = 1
    /\ IF phaseIx = 2
       THEN gPc' = "format" /\ UNCHANGED phaseIx
       ELSE gPc' = "reads" /\ phaseIx' = phaseIx + 1
    /\ UNCHANGED <<locus, bam, seqs, gResult, cfgVars, refVars, csVars, runVars>>

\* lines 185-202
GenoFormat ==
    /\ gPc = "format"
    /\ gResult' = Some(FormatRecord(locus.chrom, locus.start, consenses, somatic,
                                    all_insertions))
    /\ gPc' = "done"
    /\ UNCHANGED <<locus, bam, seqs, phaseIx, readIx, hap_insertions, consenses,
                   all_insertions, consensusCalls, cfgVars, refVars, csVars, runVars>>

NextGeno == GenoFetch \/ GenoRead \/ GenoConsensus \/ GenoFormat

SpecGeno == InitGeno /\ [][NextGeno]_vars

-----------------------------------------------------------------------------
(* make_repeat_compressed_sequence (call.rs:205-220).                      *)
(* A base of the reference is known by its 0-based position on the         *)
(* chromosome, so a fetched sequence is the sequence of the positions it   *)
(* was read from.                                                          *)

\* the offsets of lines 214 and 217
LeftBeginOffset == 10002
LeftEndOffset == 2
RightEndOffset == 9998

Min(a, b) == IF a <= b THEN a ELSE b

\* faidx fetch_seq(chrom, begin, end) (call.rs:213-218): the bases from begin to
\* end, both included, cut at the end of the chromosome
FetchSeq(len, begin, end) ==
    LET b == Min(begin, len)
        e == Min(end, len - 1)
    IN  [i \in 1..(e - b + 1) |-> b + i - 1]

\* the loci and chromosome lengths make_repeat_compressed_sequence is run on; the
\* left flank is inside the chromosome, the right flank may reach past its end
RefStarts == {10002, 10003, 20000}
RepeatLens == {1, 28, 40}
RefLoci == {[chrom |-> <<49>>, start |-> s, end |-> s + k] : s \in RefStarts, k \in RepeatLens}
RightRoom == {5000, 9998, 9999, 20000}

InitRef ==
    /\ minlen = 1 /\ support = 1 /\ somatic = FALSE
    /\ locus \in RefLoci
    /\ fasLen \in {locus.end + room : room \in RightRoom}
    /\ fas_left = <<>> /\ fas_right = <<>> /\ newref = <<>>
    /\ refPc = "left"
    /\ bam = <<>> /\ seqs = None /\ phaseIx = 0 /\ readIx = 0
    /\ hap_insertions = <<>> /\ consenses = <<>> /\ all_insertions = <<>>
    /\ consensusCalls = <<>> /\ gPc = "idle" /\ gResult = None
    /\ CsIdle
    /\ RunIdle

\* lines 213-215
RefLeft ==
    /\ refPc = "left"
    /\ fas_left' = FetchSeq(fasLen, locus.start - LeftBeginOffset, locus.start - LeftEndOffset)
    /\ refPc' = "right"
    /\ UNCHANGED <<fasLen, fas_right, newref, cfgVars, csVars, genoVars, runVars>>

\* lines 216-218
RefRight ==
    /\ refPc = "right"
    /\ fas_right' = FetchSeq(fasLen, locus.end, locus.end + RightEndOffset)
    /\ refPc' = "concat"
    /\ UNCHANGED <<fasLen, fas_left, newref, cfgVars, csVars, genoVars, runVars>>

\* line 219
RefConcat ==
    /\ refPc = "concat"
    /\ newref' = fas_left \o fas_right
    /\ refPc' = "done"
    /\ UNCHANGED <<fasLen, fas_left, fas_right, cfgVars, csVars, genoVars, runVars>>

NextRef == RefLeft \/ RefRight \/ RefConcat

SpecRef == InitRef /\ [][NextRef]_vars

-----------------------------------------------------------------------------
(* genotype_repeat as a function of the locus, for the scheduler.          *)

\* Result<String, String> of genotype_repeat, or its panic
Ok(v) == [panic |-> FALSE, ok |-> TRUE, val |-> v]
Err(e) == [panic |-> FALSE, ok |-> FALSE, val |-> e]
Unwound == [panic |-> TRUE, ok |-> FALSE, val |-> <<>>]

\* lines 172-179 over all the reads of one haplotype
RECURSIVE HapCandidates(_, _)
HapCandidates(reads, m) ==
    IF reads = <<>> THEN Some(<<>>)
    ELSE LET first == ReadCandidates(reads[1], m)
             rest == HapCandidates(Tail(reads), m)
         IN  IF first.panic \/ rest.panic THEN Panicked
             ELSE Some(first.val \o rest.val)

JoinedCandidates(cands) == Join([i \in DOMAIN cands |-> Bytes(cands[i])], Comma)

\* genotype_repeat (call.rs:147-203) on the records the store holds for the locus
GenotypeRepeatOn(l, records, m, sup, som) ==
    LET got == GetOverlappingReads(l.chrom, records)
    IN  IF ~got.some THEN Unwound
        ELSE LET c1 == HapCandidates(got.val[1], m)
                 c2 == HapCandidates(got.val[2], m)
             IN  IF c1.panic \/ c2.panic THEN Unwound
                 ELSE Ok(FormatRecord(l.chrom, l.start,
                                      <<Consensus(c1.val, sup), Consensus(c2.val, sup)>>,
                                      som,
                                      IF som
                                      THEN <<JoinedCandidates(c1.val), JoinedCandidates(c2.val)>>
                                      ELSE <<>>))

\* The loci a region file is drawn from, and what the bam holds at each.
LocusA == [chrom |-> Chr1, start |-> 20000, end |-> 20028]
LocusB == [chrom |-> Chr1, start |-> 100000, end |-> 100028]
LocusC == [chrom |-> Chr10, start |-> 20000, end |-> 20028]
LocusD == [chrom |-> Chr1, start |-> 20000, end |-> 20040]
LocusM == [chrom |-> Chr3, start |-> 20000, end |-> 20028]
BedLoci == {LocusA, LocusB, LocusC, LocusD, LocusM}

ReadJunction == [ok |-> TRUE, maps |-> <<MapJunction>>]
ReadEdge == [ok |-> TRUE, maps |-> <<MapEdge>>]

StoreRecords(l) ==
    CASE l = LocusA -> <<[phase |-> 1, read |-> ReadJunction], [phase |-> 2, read |-> ReadEdge]>>
      [] l = LocusB -> <<[phase |-> 1, read |-> ReadJunction]>>
      [] l = LocusC -> <<[phase |-> 0, read |-> ReadEdge], [phase |-> 2, read |-> ReadJunction]>>
      [] OTHER -> <<>>

\* genotype_repeat(bamf, fastaf, chrom, start, end, minlen, support, somatic)
GenotypeRepeat(l, m, sup, som) == GenotypeRepeatOn(l, StoreRecords(l), m, sup, som)

-----------------------------------------------------------------------------
(* Vec and String operations of the scheduler.                             *)

\* Ord for String: byte-wise lexicographic (call.rs:97 sorts a Vec<String>)
RECURSIVE LexLeq(_, _)
LexLeq(a, b) ==
    IF a = <<>> THEN TRUE
    ELSE IF b = <<>> THEN FALSE
    ELSE IF a[1] < b[1] THEN TRUE
    ELSE IF a[1] > b[1] THEN FALSE
    ELSE LexLeq(Tail(a), Tail(b))

\* the sort left out: the lines stay in the order the workers appended them
NoSort(v) == v

\* genotypes_vec.sort_unstable() (call.rs:97): the elements in non-decreasing
\* order; equal Strings cannot be told apart, so the order among them is free and
\* is taken to be the order of their positions
SortUnstable(v) ==
    LET before(j, i) == IF v[j] = v[i] THEN j <= i ELSE LexLeq(v[j], v[i])
        rank(i) == Cardinality({j \in DOMAIN v : before(j, i)})
    IN  [k \in 1..Len(v) |-> v[CHOOSE i \in DOMAIN v : rank(i) = k]]

\* chroms_reported.contains(&chrom) (call.rs:88, 132)
Contains(v, x) == \E i \in DOMAIN v : v[i] = x

\* a push that keeps one copy of equal elements, as the reported chromosomes are kept
PushUnlessPresent(v, x) == IF Contains(v, x) THEN v ELSE Append(v, x)

\* geno.push(output) (call.rs:82)
Push(v, x) == Append(v, x)

\* println! (call.rs:99, 127)
Println(out, line) == Append(out, line)

-----------------------------------------------------------------------------
(* genotype_repeats on a region file (call.rs:49-140): run 1 with threads  *)
(* = 1, then run 2 with threads > 1, on the same files and parameters.     *)
(* Thread 0 is the main thread, 1..PoolSize are the workers of the pool.   *)

\* The pool built at lines 51-54 is dropped at once, so for_each runs on rayon's
\* global pool; PoolSize bounds the number of its workers.
Main == 0
Workers == 1..PoolSize

InitRun ==
    /\ minlen = 1 /\ support = 1 /\ somatic = FALSE
    /\ bed \in SeqsUpTo(BedLoci, MaxLoci)
    \* the files and the parameters are fixed for both runs, so what genotype_repeat
    \* returns for a locus is too
    /\ genotypeOf = [l \in BedLoci |-> GenotypeRepeat(l, minlen, support, somatic)]
    /\ bamOpened = [r \in 1..2 |-> 0]
    /\ run = 1
    /\ reader = 1
    /\ pc = [t \in 0..PoolSize |-> IF t = Main THEN "loop" ELSE "idle"]
    /\ cur = [t \in 0..PoolSize |-> 0]
    /\ res = [t \in 0..PoolSize |-> None]
    /\ genotypes = <<>> /\ genoLock = {} /\ chrom_reported = <<>> /\ chromLock = {}
    /\ printed = 0
    /\ stdout = [r \in 1..2 |-> <<>>]
    /\ stderr = [r \in 1..2 |-> <<>>]
    /\ exit = [r \in 1..2 |-> IF r = 1 THEN "running" ELSE "idle"]
    /\ CsIdle
    /\ RefIdle
    /\ GenoIdle

\* lines 114-125: the next record of the reader, and genotype_repeat on it, which
\* opens its own reader of the bam (call.rs:228) before it looks the contig up
SingleCompute ==
    /\ run = 1 /\ exit[1] = "running" /\ pc[Main] = "loop"
    /\ reader <= Len(bed)
    /\ LET r == genotypeOf[bed[reader]]
       IN  /\ res' = [res EXCEPT ![Main] = r]
           /\ IF r.panic
              THEN exit' = [exit EXCEPT ![1] = "aborted"] /\ pc' = [pc EXCEPT ![Main] = "panicked"]
              ELSE exit' = exit /\ pc' = [pc EXCEPT ![Main] = "match"]
    /\ bamOpened' = [bamOpened EXCEPT ![1] = @ + 1]
    /\ cur' = [cur EXCEPT ![Main] = reader]
    /\ reader' = reader + 1
    /\ UNCHANGED <<bed, genotypeOf, run, genotypes, genoLock, chrom_reported, chromLock, printed,
                   stdout, stderr, cfgVars, refVars, csVars, genoVars>>

\* the Ok arm of the multi-worker path in the single-worker loop: the line is
\* collected for a later sort instead of being written
SingleMatchCollects ==
    /\ run = 1 /\ pc[Main] = "match"
    /\ genotypes' = Push(genotypes, res[Main].val)
    /\ pc' = [pc EXCEPT ![Main] = "loop"]
    /\ UNCHANGED <<bed, genotypeOf, bamOpened, run, reader, cur, res, genoLock, chrom_reported, chromLock,
                   printed, stdout, stderr, exit, cfgVars, refVars, csVars, genoVars>>

\* lines 126-136: the arms of the match
SingleMatch ==
    /\ run = 1 /\ pc[Main] = "match"
    /\ IF res[Main].ok
       THEN /\ stdout' = [stdout EXCEPT ![1] = Println(stdout[1], res[Main].val)]
            /\ UNCHANGED <<stderr, chrom_reported>>
       ELSE /\ IF ~Contains(chrom_reported, res[Main].val)
               THEN /\ stderr' = [stderr EXCEPT ![1] = Append(stderr[1], res[Main].val)]
                    /\ chrom_reported' = Push(chrom_reported, res[Main].val)
               ELSE UNCHANGED <<stderr, chrom_reported>>
            /\ UNCHANGED stdout
    /\ pc' = [pc EXCEPT ![Main] = "loop"]
    /\ UNCHANGED <<bed, genotypeOf, bamOpened, run, reader, cur, res, genotypes, genoLock, chromLock, printed,
                   exit, cfgVars, refVars, csVars, genoVars>>

\* line 138: the reader is exhausted
SingleEnd ==
    /\ run = 1 /\ exit[1] = "running" /\ pc[Main] = "loop"
    /\ reader > Len(bed)
    /\ exit' = [exit EXCEPT ![1] = "done"]
    /\ UNCHANGED <<bed, genotypeOf, bamOpened, run, reader, pc, cur, res, genotypes, genoLock, chrom_reported,
                   chromLock, printed, stdout, stderr, cfgVars, refVars, csVars, genoVars>>

\* the second run starts: lines 50-67 with threads > 1
StartPool ==
    /\ run = 1 /\ exit[1] \in {"done", "aborted"}
    /\ run' = 2
    /\ reader' = 1
    /\ pc' = [t \in 0..PoolSize |-> IF t = Main THEN "for_each" ELSE "idle"]
    /\ cur' = [t \in 0..PoolSize |-> 0]
    /\ res' = [t \in 0..PoolSize |-> None]
    /\ chrom_reported' = <<>>
    /\ genotypes' = <<>>
    /\ exit' = [exit EXCEPT ![2] = "running"]
    /\ UNCHANGED <<bed, genotypeOf, bamOpened, genoLock, chromLock, printed, stdout, stderr, cfgVars, refVars, csVars,
                   genoVars>>

\* the guard of the result collection taken at the head of the closure, before
\* genotype_repeat is called
TakeAndLock(w) ==
    /\ run = 2 /\ pc[Main] = "for_each" /\ pc[w] = "idle"
    /\ reader <= Len(bed)
    /\ genoLock = {}
    /\ genoLock' = {w}
    /\ cur' = [cur EXCEPT ![w] = reader]
    /\ reader' = reader + 1
    /\ pc' = [pc EXCEPT ![w] = "genotype"]
    /\ UNCHANGED <<bed, genotypeOf, bamOpened, run, res, genotypes, chrom_reported, chromLock, printed,
                   stdout, stderr, exit, cfgVars, refVars, csVars, genoVars>>

\* line 68: par_bridge hands the next record to a free worker
Take(w) ==
    /\ run = 2 /\ pc[Main] = "for_each" /\ pc[w] = "idle"
    /\ reader <= Len(bed)
    /\ cur' = [cur EXCEPT ![w] = reader]
    /\ reader' = reader + 1
    /\ pc' = [pc EXCEPT ![w] = "genotype"]
    /\ UNCHANGED <<bed, genotypeOf, bamOpened, run, res, genotypes, genoLock, chrom_reported, chromLock, printed,
                   stdout, stderr, exit, cfgVars, refVars, csVars, genoVars>>

\* lines 70-79: genotype_repeat on the worker's record, no lock held; the call
\* opens its own reader of the bam (call.rs:228)
Compute(w) ==
    /\ run = 2 /\ pc[w] = "genotype"
    /\ LET r == genotypeOf[bed[cur[w]]]
       IN  /\ res' = [res EXCEPT ![w] = r]
           /\ pc' = [pc EXCEPT ![w] = IF r.panic THEN "panicked" ELSE "match"]
    /\ bamOpened' = [bamOpened EXCEPT ![2] = @ + 1]
    /\ UNCHANGED <<bed, genotypeOf, run, reader, cur, genotypes, genoLock, chrom_reported, chromLock,
                   printed, stdout, stderr, exit, cfgVars, refVars, csVars, genoVars>>

\* lines 81 and 87: lock() of the mutex the arm needs, granted when it is free
Lock(w) ==
    /\ run = 2 /\ pc[w] = "match"
    /\ IF res[w].ok
       THEN genoLock = {} /\ genoLock' = {w} /\ UNCHANGED chromLock
       ELSE chromLock = {} /\ chromLock' = {w} /\ UNCHANGED genoLock
    /\ pc' = [pc EXCEPT ![w] = "locked"]
    /\ UNCHANGED <<bed, genotypeOf, bamOpened, run, reader, cur, res, genotypes, chrom_reported, printed,
                   stdout, stderr, exit, cfgVars, refVars, csVars, genoVars>>

\* the guard outlives the arm: the worker goes back for the next record with its
\* lock still held
StoreKeepsGuard(w) ==
    /\ run = 2 /\ pc[w] = "locked"
    /\ IF res[w].ok
       THEN /\ genotypes' = Push(genotypes, res[w].val)
            /\ UNCHANGED <<stderr, chrom_reported>>
       ELSE /\ IF ~Contains(chrom_reported, res[w].val)
               THEN /\ stderr' = [stderr EXCEPT ![2] = Append(stderr[2], res[w].val)]
                    /\ chrom_reported' = Push(chrom_reported, res[w].val)
               ELSE UNCHANGED <<stderr, chrom_reported>>
            /\ UNCHANGED genotypes
    /\ pc' = [pc EXCEPT ![w] = "idle"]
    /\ UNCHANGED <<bed, genotypeOf, bamOpened, run, reader, cur, res, genoLock, chromLock,
                   printed, stdout, exit, cfgVars, refVars, csVars, genoVars>>

\* the Ok arm of the single-worker loop in the closure of the pool: the line is
\* written as soon as the worker has it, and collected as well
StoreAndPrint(w) ==
    /\ run = 2 /\ pc[w] = "locked"
    /\ IF res[w].ok
       THEN /\ genotypes' = Push(genotypes, res[w].val)
            /\ stdout' = [stdout EXCEPT ![2] = Println(stdout[2], res[w].val)]
            /\ genoLock' = {}
            /\ UNCHANGED <<stderr, chrom_reported, chromLock>>
       ELSE /\ IF ~Contains(chrom_reported, res[w].val)
               THEN /\ stderr' = [stderr EXCEPT ![2] = Append(stderr[2], res[w].val)]
                    /\ chrom_reported' = Push(chrom_reported, res[w].val)
               ELSE UNCHANGED <<stderr, chrom_reported>>
            /\ chromLock' = {}
            /\ UNCHANGED <<genotypes, genoLock, stdout>>
    /\ pc' = [pc EXCEPT ![w] = "idle"]
    /\ UNCHANGED <<bed, genotypeOf, bamOpened, run, reader, cur, res, printed, exit, cfgVars, refVars,
                   csVars, genoVars>>

\* lines 82-83 and 88-92: the arm's work under its lock; the guard drops at the end
Store(w) ==
    /\ run = 2 /\ pc[w] = "locked"
    /\ IF res[w].ok
       THEN /\ genotypes' = Push(genotypes, res[w].val)
            /\ genoLock' = {}
            /\ UNCHANGED <<stderr, chrom_reported, chromLock>>
       ELSE /\ IF ~Contains(chrom_reported, res[w].val)
               THEN /\ stderr' = [stderr EXCEPT ![2] = Append(stderr[2], res[w].val)]
                    /\ chrom_reported' = Push(chrom_reported, res[w].val)
               ELSE UNCHANGED <<stderr, chrom_reported>>
            /\ chromLock' = {}
            /\ UNCHANGED <<genotypes, genoLock>>
    /\ pc' = [pc EXCEPT ![w] = "idle"]
    /\ UNCHANGED <<bed, genotypeOf, bamOpened, run, reader, cur, res, printed, stdout, exit, cfgVars, refVars, csVars,
                   genoVars>>

\* line 94: for_each returns once no worker is busy and the reader is exhausted;
\* when a worker panicked the panic is resumed on the main thread instead, whether
\* or not the other workers went on to drain the reader
ForEachReturns ==
    /\ run = 2 /\ pc[Main] = "for_each"
    /\ \A w \in Workers : pc[w] \in {"idle", "panicked"}
    /\ IF \E w \in Workers : pc[w] = "panicked"
       THEN /\ exit' = [exit EXCEPT ![2] = "aborted"]
            /\ pc' = [pc EXCEPT ![Main] = "panicked"]
       ELSE /\ reader > Len(bed)
            /\ exit' = exit
            /\ pc' = [pc EXCEPT ![Main] = "collect"]
    /\ UNCHANGED <<bed, genotypeOf, bamOpened, run, reader, cur, res, genotypes, genoLock, chrom_reported,
                   chromLock, printed, stdout, stderr, cfgVars, refVars, csVars, genoVars>>

\* lines 95-97: the final lock and the sort
SortAll ==
    /\ run = 2 /\ pc[Main] = "collect"
    /\ genoLock = {}
    /\ genoLock' = {Main}
    /\ genotypes' = SortUnstable(genotypes)
    /\ printed' = 0
    /\ pc' = [pc EXCEPT ![Main] = "print"]
    /\ UNCHANGED <<bed, genotypeOf, bamOpened, run, reader, cur, res, chrom_reported, chromLock, stdout, stderr,
                   exit, cfgVars, refVars, csVars, genoVars>>

\* lines 98-100: one println
PrintNext ==
    /\ run = 2 /\ pc[Main] = "print"
    /\ printed < Len(genotypes)
    /\ stdout' = [stdout EXCEPT ![2] = Println(stdout[2], genotypes[printed + 1])]
    /\ printed' = printed + 1
    /\ UNCHANGED <<bed, genotypeOf, bamOpened, run, reader, pc, cur, res, genotypes, genoLock, chrom_reported,
                   chromLock, stderr, exit, cfgVars, refVars, csVars, genoVars>>

\* line 100: the loop is over and the guard drops
PoolEnd ==
    /\ run = 2 /\ pc[Main] = "print"
    /\ printed = Len(genotypes)
    /\ genoLock' = {}
    /\ exit' = [exit EXCEPT ![2] = "done"]
    /\ pc' = [pc EXCEPT ![Main] = "returned"]
    /\ UNCHANGED <<bed, genotypeOf, bamOpened, run, reader, cur, res, genotypes, chrom_reported, chromLock,
                   printed, stdout, stderr, cfgVars, refVars, csVars, genoVars>>

Next ==
    \/ SingleCompute \/ SingleMatch \/ SingleEnd \/ StartPool
    \/ \E w \in Workers : Take(w) \/ Compute(w) \/ Lock(w) \/ Store(w)
    \/ ForEachReturns \/ SortAll \/ PrintNext \/ PoolEnd

Init == InitRun

Spec == Init /\ [][Next]_vars

\* The threads are scheduled by the operating system and a mutex is granted to one
\* of its waiters once it is free: as long as some thread can take a step, a step
\* is taken.
\* The same two runs on region files drawn from three of the loci: two that
\* genotype and the one whose contig the bam lacks.
FairLoci == {LocusA, LocusB, LocusM}

InitFair == InitRun /\ bed \in SeqsUpTo(FairLoci, MaxLoci)

SpecFair == InitFair /\ [][Next]_vars /\ WF_vars(Next)

-----------------------------------------------------------------------------
(* Properties.                                                             *)

Ended(r) == exit[r] \in {"done", "aborted"}

BagOfSeq(v) ==
    [x \in {v[i] : i \in DOMAIN v} |-> Cardinality({i \in DOMAIN v : v[i] = x})]

CountOf(v, x) == Cardinality({i \in DOMAIN v : v[i] = x})

\* the lines genotype_repeat returns for the loci of a list, in the list's order
RECURSIVE LinesOf(_)
LinesOf(loci) ==
    IF loci = <<>> THEN <<>>
    ELSE LET r == genotypeOf[loci[1]]
         IN  (IF r.ok THEN <<r.val>> ELSE <<>>) \o LinesOf(Tail(loci))

\* the first record of the region file on which genotype_repeat panics
FirstPanic ==
    LET bad == {i \in DOMAIN bed : genotypeOf[bed[i]].panic}
    IN  IF bad = {} THEN Len(bed) + 1 ELSE SetMin(bad)

MissingChroms == {bed[i].chrom : i \in DOMAIN bed} \ BamChroms

\* the first tab-separated field of a line, and the line after that field
RECURSIVE FirstField(_)
FirstField(line) ==
    IF line = <<>> \/ line[1] = 9 THEN <<>> ELSE <<line[1]>> \o FirstField(Tail(line))

AfterField(line) == SubSeq(line, Len(FirstField(line)) + 2, Len(line))

RECURSIVE NumberOf(_)
NumberOf(digits) ==
    IF digits = <<>> THEN 0
    ELSE 10 * NumberOf(SubSeq(digits, 1, Len(digits) - 1)) + (digits[Len(digits)] - 48)

ChromOfLine(line) == FirstField(line)
StartOfLine(line) == NumberOf(FirstField(AfterField(line)))

\* (chrom, start) of line a is not after that of line b, start compared as a number
KeyLeq(a, b) ==
    \/ ChromOfLine(a) # ChromOfLine(b) /\ LexLeq(ChromOfLine(a), ChromOfLine(b))
    \/ ChromOfLine(a) = ChromOfLine(b) /\ StartOfLine(a) <= StartOfLine(b)

IsLexSorted(v) == \A i \in 1..(Len(v) - 1) : LexLeq(v[i], v[i + 1])

(* C1: in a region-file run, single-worker or multi-worker, every distinct  *)
(* chromosome that the alignment store lacks has been reported as "contig   *)
(* not found" exactly once when the run has ended.                          *)
C1_MissingContigReportedOnce ==
    \A r \in 1..2 :
        Ended(r) => \A c \in MissingChroms : CountOf(stderr[r], c) = 1

(* C2: a locus whose chromosome the store lacks is a locus-scoped failure:  *)
(* genotype_repeat yields Err(chrom) for it, the run never aborts, every    *)
(* record of the region file is processed and only the loci of missing      *)
(* chromosomes have no line in the output.                                  *)
C2_MissingContigSkipsLocus ==
    /\ \A t \in 0..PoolSize :
          (pc[t] \in {"match", "locked"} /\ bed[cur[t]].chrom \notin BamChroms)
              => res[t] = Err(bed[cur[t]].chrom)
    /\ \A r \in 1..2 :
          /\ exit[r] # "aborted"
          /\ exit[r] = "done" =>
                Len(stdout[r]) = Cardinality({i \in DOMAIN bed : bed[i].chrom \in BamChroms})

(* C3: in the multi-worker run the lines written so far are in              *)
(* non-decreasing order of (chrom, start), start compared as an unsigned    *)
(* integer (the order the key (chrom, start, end) implies on its first two  *)
(* components).                                                             *)
C3_OutputInKeyOrder ==
    \A i \in 1..(Len(stdout[2]) - 1) : KeyLeq(stdout[2][i], stdout[2][i + 1])

(* C4: the output of an ended multi-worker run is a function of the region  *)
(* file alone, whatever the interleaving of the workers: nothing when some  *)
(* locus panics, else the one byte-wise sorted arrangement of the loci's    *)
(* lines.                                                                   *)
C4_PoolOutputDeterministic ==
    Ended(2) =>
        IF FirstPanic <= Len(bed)
        THEN stdout[2] = <<>>
        ELSE IsLexSorted(stdout[2]) /\ BagOfSeq(stdout[2]) = BagOfSeq(LinesOf(bed))

\* a finished multi-worker run of three loci whose output order is not the order
\* of the region file
C4_Witness ==
    /\ exit[2] = "done"
    /\ Len(stdout[2]) = 3
    /\ stdout[2] # LinesOf(bed)

(* C5: once both runs have ended, the multiset of lines of the multi-worker *)
(* run equals the multiset of lines of the single-worker run.               *)
C5_SameRecordsInBothModes ==
    (Ended(1) /\ Ended(2)) => BagOfSeq(stdout[2]) = BagOfSeq(stdout[1])

(* C6: in the single-worker run the output is, at every moment, the lines   *)
(* of the loci handled so far in the order of the region file, each written *)
(* before the next record is taken, and nothing is buffered or sorted.      *)
C6_SingleWorkerStreams ==
    /\ run = 1 =>
          /\ genotypes = <<>>
          /\ stdout[1] = LinesOf(SubSeq(bed, 1,
                                        IF pc[Main] = "loop" THEN reader - 1 ELSE reader - 2))
    /\ run = 2 => stdout[1] = LinesOf(SubSeq(bed, 1, FirstPanic - 1))

\* two lines streamed in region-file order, which is not their sorted order, with a
\* record still to come
C6_Witness ==
    /\ run = 1 /\ pc[Main] = "loop" /\ reader <= Len(bed)
    /\ Len(stdout[1]) = 2
    /\ ~LexLeq(stdout[1][1], stdout[1][2])

(* C7: after a run that completes, the output holds exactly one line per    *)
(* locus of the region file (all were processed successfully), as a         *)
(* multiset: none lost, none duplicated, none foreign.                      *)
C7_OneRecordPerLocus ==
    \A r \in 1..2 : exit[r] = "done" => BagOfSeq(stdout[r]) = BagOfSeq(LinesOf(bed))

\* a completed multi-worker run where two workers appended the same line
C7_Witness ==
    /\ exit[2] = "done"
    /\ Len(stdout[2]) >= 2
    /\ stdout[2][1] = stdout[2][2]

\* the tag consists of match operations only: ':' and digits, each ':' followed by
\* a digit
OnlyMatches(tag) ==
    /\ tag # <<>>
    /\ tag[1] = ":"
    /\ \A i \in DOMAIN tag :
          /\ tag[i] \in {":"} \cup Digits
          /\ tag[i] = ":" => (i < Len(tag) /\ tag[i + 1] \in Digits)

\* the tag is match operations (maybe none) followed by one insertion of bases
EndsInOneInsertion(tag) ==
    \E k \in DOMAIN tag :
        /\ tag[k] = "+"
        /\ k < Len(tag)
        /\ \A i \in (k + 1)..Len(tag) : tag[i] \in Bases
        /\ k > 1 => OnlyMatches(SubSeq(tag, 1, k - 1))

InsertedBases(tag) ==
    LET k == CHOOSE i \in DOMAIN tag : tag[i] = "+" IN SubSeq(tag, k + 1, Len(tag))

(* C8: scanning an insertion operation appends its sequence to the retained *)
(* insertions iff the sequence is longer than minlen and the cursor is in   *)
(* [9990, 10010], and no other operation changes them; a tag of matches     *)
(* only yields no candidate, and a tag ending in its single insertion       *)
(* yields that insertion when it is longer than minlen with the cursor at   *)
(* 10000, and no candidate when the cursor is outside the window.           *)
C8_InsertionRetainedIffInWindow ==
    /\ [][(csPc = "scan" /\ NextMatch(cs, csPos) # 0) =>
            LET j == NextMatch(cs, csPos)
                body == SubSeq(cs, j + 1, MatchEnd(cs, j))
            IN  insertions' =
                    IF /\ cs[j] = "+"
                       /\ Len(body) > minlen
                       /\ 9990 <= ref_pos /\ ref_pos <= 10010
                    THEN Append(insertions, body)
                    ELSE insertions]_vars
    /\ [](csPc = "done" =>
            /\ OnlyMatches(cs) => csResult = None
            /\ EndsInOneInsertion(cs) =>
                  /\ (Len(InsertedBases(cs)) > minlen /\ ref_pos = 10000)
                        => csResult = Some(InsertedBases(cs))
                  /\ (ref_pos < 9990 \/ ref_pos > 10010) => csResult = None)

\* ":1+aa" from offset 10009 with minlen 1: the insertion sits on the upper end of
\* the window and is returned
C8_Witness ==
    /\ csPc = "done"
    /\ cs = <<":", "1", "+", "a", "a">>
    /\ minlen = 1
    /\ ref_pos = 10010
    /\ csResult = Some(<<"a", "a">>)

\* the positions of the tag inside a captured operation, from position i on
RECURSIVE Captured(_, _)
Captured(tag, i) ==
    LET j == NextMatch(tag, i)
    IN  IF j = 0 THEN {} ELSE (j..MatchEnd(tag, j)) \cup Captured(tag, MatchEnd(tag, j) + 1)

HasStraySymbol(tag) == Captured(tag, 1) # DOMAIN tag

(* C9: a tag holding a symbol that is part of no match, mismatch, deletion  *)
(* or insertion operation never parses to a result: parse_cs panics on it.  *)
C9_StraySymbolIsFatal ==
    HasStraySymbol(cs) => csPc # "done"

(* C10: the candidates handed to the consensus step for a haplotype are at  *)
(* most as many as the reads of that haplotype.                             *)
C10_AtMostOneCandidatePerRead ==
    \A k \in DOMAIN consensusCalls : Len(consensusCalls[k]) <= Len(seqs.val[k])

\* both flanks of the locus lie inside the chromosome
FlanksInBounds ==
    /\ locus.start >= 10002
    /\ locus.end + 9998 < fasLen

(* C11: for a locus whose flanks lie within the chromosome, the compressed  *)
(* reference has exactly 20000 bases: its first 10000 are bases upstream of *)
(* start, its last 10000 are bases downstream of end, and none comes from a *)
(* position in [start, end).                                                *)
C11_TwoFlanksOfTenThousand ==
    (refPc = "done" /\ FlanksInBounds) =>
        /\ Len(newref) = 20000
        /\ \A i \in 1..10000 : newref[i] < locus.start
        /\ \A i \in 10001..20000 : newref[i] >= locus.end
        /\ \A i \in DOMAIN newref : ~(locus.start <= newref[i] /\ newref[i] < locus.end)

\* the positions of the store's records of phase p, and the k-th of them
RecordsOfPhase(p) == {i \in DOMAIN bam : bam[i].phase = p}
KthOfPhase(p, k) ==
    CHOOSE i \in RecordsOfPhase(p) : Cardinality({j \in RecordsOfPhase(p) : j <= i}) = k

(* C12: for a chromosome of the store and records of phase 0, 1 or 2, the   *)
(* map get_overlapping_reads returns has exactly the keys 1 and 2; bucket p *)
(* holds the reads of the records of phase p, each once, in store order,    *)
(* and the records of phase 0 are in neither bucket.                        *)
C12_BucketsHoldTheirPhase ==
    (gPc # "fetch" /\ locus.chrom \in BamChroms) =>
        /\ seqs.some
        /\ DOMAIN seqs.val = {1, 2}
        /\ \A p \in {1, 2} :
              /\ Len(seqs.val[p]) = Cardinality(RecordsOfPhase(p))
              /\ \A k \in 1..Len(seqs.val[p]) : seqs.val[p][k] = bam[KthOfPhase(p, k)].read
        /\ Len(seqs.val[1]) + Len(seqs.val[2])
              = Len(bam) - Cardinality(RecordsOfPhase(0))

\* three records fetched, of phase 2, 0 and 1 in that order with different reads
C12_Witness ==
    /\ gPc # "fetch" /\ seqs.some
    /\ Len(bam) = 3
    /\ bam[1].phase = 2 /\ bam[2].phase = 0 /\ bam[3].phase = 1
    /\ bam[1].read # bam[3].read /\ bam[2].read # bam[3].read
    /\ seqs.val[1] = <<bam[3].read>>
    /\ seqs.val[2] = <<bam[1].read>>

\* the record genotype_repeat returns on the same locus, reads and parameters with
\* the somatic option as given
RecordWithSomatic(som) ==
    IF som = somatic THEN gResult.val
    ELSE GenotypeRepeatOn(locus, bam, minlen, support, som).val

\* ";SEQS=" and the candidates of each haplotype joined by ',', the haplotypes by '|'
SeqsField ==
    SeqsKey \o Join(<<JoinedCandidates(consensusCalls[1]),
                      JoinedCandidates(consensusCalls[2])>>, Pipe)

(* C13: for the same locus, reads, minlen and support, the record built     *)
(* with somatic on is the record built with somatic off followed by the     *)
(* SEQS field, so the consensus length and sequence fields of the two       *)
(* haplotypes are the same; the record built with somatic off has no SEQS   *)
(* field.                                                                   *)
C13_SomaticOnlyAddsSeqs ==
    gPc = "done" =>
        LET on == RecordWithSomatic(TRUE)
            off == RecordWithSomatic(FALSE)
        IN  /\ on = off \o SeqsField
            /\ \A i \in DOMAIN off : off[i] # 59

\* somatic on, two candidates on haplotype 1 and a consensus called from them
C13_Witness ==
    /\ gPc = "done" /\ somatic
    /\ Len(consensusCalls[1]) = 2
    /\ consenses[1].some
    /\ ~consenses[2].some

\* the operations of the tag captured before position i, as <<symbol, length>>
RECURSIVE OpsBefore(_, _, _)
OpsBefore(tag, from, i) ==
    LET j == NextMatch(tag, from)
    IN  IF j = 0 \/ j >= i THEN <<>>
        ELSE <<[op |-> tag[j], len |-> MatchEnd(tag, j) - j,
                num |-> IF tag[j] = ":" THEN Decimal(SubSeq(tag, j + 1, MatchEnd(tag, j)))
                        ELSE 0]>>
             \o OpsBefore(tag, MatchEnd(tag, j) + 1, i)

\* matched bases, plus half the symbols of the mismatches, plus the deleted bases
RECURSIVE ReferenceConsumed(_)
ReferenceConsumed(ops) ==
    IF ops = <<>> THEN 0
    ELSE ReferenceConsumed(Tail(ops))
         + (CASE ops[1].op = ":" -> ops[1].num
              [] ops[1].op = "*" -> ops[1].len \div 2
              [] ops[1].op = "-" -> ops[1].len
              [] ops[1].op = "+" -> 0)

(* C14: while parse_cs scans a tag, the cursor is the path's start offset   *)
(* plus the lengths of the matches, half the symbol length of the           *)
(* mismatches and the lengths of the deletions among the operations scanned *)
(* so far; an insertion leaves the cursor where it is, and no step moves    *)
(* the cursor back.                                                         *)
C14_CursorIsStartPlusConsumed ==
    /\ [](csPc \in {"scan", "done"} =>
            ref_pos = target_start + ReferenceConsumed(OpsBefore(cs, 1, csPos)))
    /\ [][/\ ref_pos' >= ref_pos
           /\ (csPc = "scan" /\ NextMatch(cs, csPos) # 0 /\ cs[NextMatch(cs, csPos)] = "+")
                 => ref_pos' = ref_pos]_vars

\* "*aa-a" from offset 10000: one mismatch and one deleted base, cursor at 10002
C14_Witness ==
    /\ csPc = "done"
    /\ cs = <<"*", "a", "a", "-", "a">>
    /\ target_start = 10000
    /\ ref_pos = 10002

LocksOf(t) == (IF t \in genoLock THEN {"genotypes"} ELSE {})
                  \cup (IF t \in chromLock THEN {"chrom_reported"} ELSE {})

(* C15: in the multi-worker run a worker holds a lock only between its      *)
(* lock() and the end of the arm that made it, for one append to the result *)
(* collection or one lookup-and-insert on the reported chromosomes; it      *)
(* holds none while it runs genotype_repeat, and that call changes neither  *)
(* collection, neither lock and no output.                                  *)
C15_NoLockAcrossCompute ==
    /\ [](\A w \in Workers :
            /\ pc[w] # "locked" => LocksOf(w) = {}
            /\ pc[w] = "locked" =>
                  LocksOf(w) = (IF res[w].ok THEN {"genotypes"} ELSE {"chrom_reported"}))
    /\ [][\A w \in Workers :
            /\ (pc[w] = "genotype" /\ pc'[w] # "genotype") =>
                  UNCHANGED <<genotypes, chrom_reported, genoLock, chromLock, stdout, stderr>>
            /\ (pc[w] = "locked" /\ pc'[w] # "locked") =>
                  /\ pc'[w] = "idle"
                  /\ Len(genotypes') + Len(chrom_reported')
                        <= Len(genotypes) + Len(chrom_reported) + 1]_vars

\* one worker inside its append while the other runs genotype_repeat
C15_Witness ==
    /\ run = 2
    /\ pc[1] = "locked" /\ genoLock = {1}
    /\ pc[2] = "genotype" /\ LocksOf(2) = {}

(* C16: in the multi-worker run a line is written only once every record   *)
(* of the region file has been taken and processed, every worker has        *)
(* finished, and the collection holds all the results in sorted order; the  *)
(* output changes in no other state.                                        *)
C16_NoWriteBeforeAllProcessed ==
    /\ [](stdout[2] # <<>> =>
            /\ reader = Len(bed) + 1
            /\ \A w \in Workers : pc[w] = "idle"
            /\ pc[Main] \in {"print", "returned"}
            /\ Len(genotypes) = Len(bed)
            /\ IsLexSorted(genotypes))
    /\ [][stdout'[2] # stdout[2] =>
            /\ pc[Main] = "print"
            /\ \A w \in Workers : pc[w] = "idle"
            /\ reader = Len(bed) + 1]_vars

\* the first of three lines is written, after the workers appended the three in an
\* order that the sort had to change
C16_Witness ==
    /\ run = 2 /\ pc[Main] = "print"
    /\ Len(bed) = 3
    /\ Len(stdout[2]) = 1
    /\ genotypes # LinesOf(bed)

(* C17: a single-worker run over a region file with at least one record     *)
(* opens exactly one handle on the alignment store, however many records    *)
(* the file holds.                                                          *)
C17_OneHandleInSingleMode ==
    (exit[1] = "done" /\ bed # <<>>) => bamOpened[1] = 1

\* the text of a line before the first separator byte, and the n-th field of a line
RECURSIVE UpTo(_, _)
UpTo(line, sep) ==
    IF line = <<>> \/ line[1] = sep THEN <<>> ELSE <<line[1]>> \o UpTo(Tail(line), sep)

RECURSIVE NthField(_, _, _)
NthField(line, n, sep) ==
    IF n = 1 THEN UpTo(line, sep)
    ELSE NthField(SubSeq(line, Len(UpTo(line, sep)) + 2, Len(line)), n - 1, sep)

\* the sequence and the length of haplotype k as the record shows them: the k-th
\* allele of the fifth column, the k-th number of the last column before any ';'
SeqFieldOf(record, k) == NthField(NthField(record, 5, 9), k, 44)
LengthFieldOf(record, k) == NthField(UpTo(NthField(record, 8, 9), 59), k, 44)

(* C18: in the record genotype_repeat builds, the length and the sequence   *)
(* of a haplotype are both '.' exactly when its consensus is none;          *)
(* otherwise the sequence is the consensus and the length is the decimal    *)
(* number of its bases.                                                     *)
C18_LengthPairsWithSequence ==
    gPc = "done" =>
        \A k \in {1, 2} :
            LET sq == SeqFieldOf(gResult.val, k)
                ln == LengthFieldOf(gResult.val, k)
            IN  /\ (sq = Dot) <=> (ln = Dot)
                /\ (sq = Dot) <=> ~consenses[k].some
                /\ sq # Dot =>
                      /\ sq = Bytes(consenses[k].val)
                      /\ \A i \in DOMAIN ln : ln[i] \in 48..57
                      /\ ln # <<>> /\ NumberOf(ln) = Len(sq)

\* a record with a consensus of three bases on haplotype 1 and none on haplotype 2
C18_Witness ==
    /\ gPc = "done" /\ ~somatic
    /\ consenses[1] = Some(<<"a", "a", "a">>)
    /\ consenses[2] = None
    /\ LengthFieldOf(gResult.val, 1) = <<51>>
    /\ SeqFieldOf(gResult.val, 2) = Dot

(* C19: the multi-worker run over a finite region file ends: it finishes    *)
(* with every record taken and its result collected, or it aborts on a      *)
(* panic. No thread holds both locks, a lock is requested only by a thread  *)
(* that holds none, and the main thread takes the final lock on the result  *)
(* collection only when every worker is done and holds no lock.             *)
C19_PoolRunEnds ==
    /\ <>Ended(2)
    /\ [](exit[2] = "done" => (reader = Len(bed) + 1 /\ Len(genotypes) = Len(bed)))
    /\ [](\A t \in 0..PoolSize : Cardinality(LocksOf(t)) <= 1)
    /\ [][\A t \in 0..PoolSize :
            (LocksOf(t)' # LocksOf(t) /\ LocksOf(t)' # {}) => LocksOf(t) = {}]_vars
    /\ [][(Main \in genoLock' /\ Main \notin genoLock) =>
            \A w \in Workers : pc[w] = "idle" /\ LocksOf(w) = {}]_vars

\* a worker waits for the lock of the result collection, which the other holds,
\* while a record is still to be taken
C19_Witness ==
    /\ run = 2 /\ pc[Main] = "for_each"
    /\ pc[1] = "match" /\ res[1].ok
    /\ pc[2] = "locked" /\ genoLock = {2}
    /\ reader <= Len(bed)

====
